---- MODULE Spec2Model ----
(***************************************************************************)
(* Stellara advanced token contract (Contracts/contracts/token): the NFT   *)
(* ledger, the semi-fungible (SFT) ledger and the pause / whitelist /      *)
(* royalty extensions, as a state machine over the contract's storage.     *)
(*                                                                         *)
(* Every function of the contract is an operator from a storage snapshot   *)
(* `s` (and the call's arguments) to a result record                       *)
(*     [err, st, ev, ret]                                                  *)
(* err = "ok" or the name of the panic, st = the storage as the function   *)
(* left it (for a panic: the storage at the moment of the panic), ev = the *)
(* topics of the events published, ret = the value returned.  The host     *)
(* commits st and ev only when the invocation returns (Invoke).            *)
(***************************************************************************)
EXTENDS Integers, Sequences, FiniteSets, TLC

\* ------------------------------------------------------------------ bounds

\* Number of NFTs the model lets nft_mint issue.
MaxTokens == 2
\* Number of classes the model lets sft_create_class create.
MaxClasses == 1
\* Largest value of the model's unsigned word (stands for u64::MAX).
U64Max == 3
\* The non-zero max_supply offered to sft_create_class.
CapSupply == 2
\* Longest class_ids / amounts vector offered to sft_batch_transfer.
MaxBatch == 2

\* Largest sale price of the model's word for the royalty arithmetic (stands
\* for u64::MAX in RoyaltyImpl::calculate; the ledger's word 0..U64Max is too
\* short to hold the basis-point denominator).
SalePriceMax == 131071
\* basis points of 100 %
MaxBasisPoints == 10000

Addr == {"alice", "bob"}
Uris == {"ipfs://1"}
Names == {"Stellara"}
Symbols == {"STL"}

TokenIds == 0 .. (MaxTokens - 1)
\* ids offered as class_id arguments: one more than can ever be created
ClassIdInputs == 0 .. MaxClasses
Amounts == 0 .. U64Max
MaxSupplyInputs == {0, CapSupply}

\* basis_points arguments: none, 2.5 %, 100 %, and one above 100 %
BasisPointInputs == {0, 250, MaxBasisPoints, MaxBasisPoints + 1}
\* sale_price arguments, up to the largest of the word
SalePrices == {0, 1, 40, 41, MaxBasisPoints, SalePriceMax}

\* u64 / void return marker
NoRet == -1

VARIABLES
    storage,         \* the contract's instance / persistent / temporary entries
    overflowChecks,  \* build profile: TRUE = `+` panics on overflow, FALSE = it wraps
    emitted,         \* topics of the events published by the last invocation
    last,            \* the last invocation: entry point, outcome, return value
    burned           \* history: the token ids whose owner record an invocation removed

vars == <<storage, overflowChecks, emitted, last, burned>>

\* ------------------------------------------------------------ value helpers

\* a map with no entry
EmptyMap == [x \in {} |-> 0]
Put(f, k, v) == [x \in (DOMAIN f) \cup {k} |-> IF x = k THEN v ELSE f[x]]
Del(f, k) == [x \in (DOMAIN f) \ {k} |-> f[x]]
Has(f, k) == k \in DOMAIN f

\* u64 arithmetic: the mathematical result, whether it fits, and what a
\* wrapping build stores
Overflows(x) == x > U64Max
Wrap(x) == x % (U64Max + 1)
SaturatingSub(x, y) == IF x >= y THEN x - y ELSE 0

Ok(s, ev, ret) == [err |-> "ok", st |-> s, ev |-> ev, ret |-> ret]
Panic(s, e) == [err |-> e, st |-> s, ev |-> <<>>, ret |-> NoRet]
ArithmeticOverflow == "ArithmeticOverflow"

\* ------------------------------------------------------------------ storage

\* Option values are <<>> (absent) or <<v>>.  Keys that every reader takes
\* with unwrap_or(default) hold the default while absent: the counters,
\* Paused, WhitelistEnabled, RoyaltyBasisPoints, NftBalance, SftBalance.
EmptyStorage ==
    [ Admin              |-> <<>>,
      Name               |-> <<>>,
      Symbol             |-> <<>>,
      Paused             |-> FALSE,
      NftCounter         |-> 0,
      NftOwner           |-> EmptyMap,
      NftUri             |-> EmptyMap,
      NftApproved        |-> EmptyMap,
      NftBalance         |-> [a \in Addr |-> 0],
      SftClassCounter    |-> 0,
      SftClassUri        |-> EmptyMap,
      SftClassName       |-> EmptyMap,
      SftClassMaxSupply  |-> EmptyMap,
      SftClassSupply     |-> EmptyMap,
      SftBalance         |-> [k \in Addr \X ClassIdInputs |-> 0],
      WhitelistEnabled   |-> FALSE,
      Whitelisted        |-> {},
      RoyaltyReceiver    |-> <<>>,
      RoyaltyBasisPoints |-> 0 ]

\* ------------------------------------------------------------------- guards

\* admin::require_admin: "" when the caller is the stored admin
require_admin(s, caller) ==
    IF s.Admin = <<>> THEN "NotInitialized"
    ELSE IF s.Admin[1] # caller THEN "Unauthorized"
    ELSE ""

\* Address::require_auth of `who` in an invocation signed by `caller`
require_auth(caller, who) == IF caller = who THEN "" ELSE "AuthFailed"

is_paused(s) == s.Paused

require_not_paused(s) == IF is_paused(s) THEN "Paused" ELSE ""

is_enabled(s) == s.WhitelistEnabled

is_whitelisted(s, addr) == addr \in s.Whitelisted

require_whitelisted(s, addr) ==
    IF ~is_whitelisted(s, addr) THEN "NotWhitelisted" ELSE ""

\* --------------------------------------------------------------- NFT ledger

NftImpl_require_owner(s, token_id) == Has(s.NftOwner, token_id)

NftImpl_mint(s, to, uri) ==
    LET token_id == s.NftCounter
        s1 == [s EXCEPT !.NftOwner = Put(@, token_id, to),
                        !.NftUri = Put(@, token_id, uri)]
        balance == s1.NftBalance[to]
    IN  IF overflowChecks /\ Overflows(balance + 1)
        THEN Panic(s1, ArithmeticOverflow)
        ELSE LET s2 == [s1 EXCEPT !.NftBalance[to] = Wrap(balance + 1)]
             IN  IF overflowChecks /\ Overflows(token_id + 1)
                 THEN Panic(s2, ArithmeticOverflow)
                 ELSE Ok([s2 EXCEPT !.NftCounter = Wrap(token_id + 1)],
                         <<"nft_mint">>, token_id)

NftImpl_do_transfer(s, from, to, token_id) ==
    LET s1 == [s EXCEPT !.NftOwner = Put(@, token_id, to)]
        from_balance == s1.NftBalance[from]
        s2 == [s1 EXCEPT !.NftBalance[from] = SaturatingSub(from_balance, 1)]
        to_balance == s2.NftBalance[to]
    IN  IF overflowChecks /\ Overflows(to_balance + 1)
        THEN Panic(s2, ArithmeticOverflow)
        ELSE Ok([s2 EXCEPT !.NftBalance[to] = Wrap(to_balance + 1)],
                <<"nft_xfr">>, NoRet)

\* NftImpl_transfer that clears the token's approval as transfer_from does
NftImpl_transfer_clears_approval(s, from, to, token_id) ==
    IF ~NftImpl_require_owner(s, token_id) THEN Panic(s, "NftNotFound")
    ELSE IF s.NftOwner[token_id] # from THEN Panic(s, "NftNotOwner")
    ELSE NftImpl_do_transfer([s EXCEPT !.NftApproved = Del(@, token_id)],
                             from, to, token_id)

NftImpl_transfer(s, from, to, token_id) ==
    IF ~NftImpl_require_owner(s, token_id) THEN Panic(s, "NftNotFound")
    ELSE IF s.NftOwner[token_id] # from THEN Panic(s, "NftNotOwner")
    ELSE NftImpl_do_transfer(s, from, to, token_id)

\* NftImpl_transfer_from that accepts any spender once the slot is filled
NftImpl_transfer_from_any_spender(s, spender, from, to, token_id) ==
    IF ~NftImpl_require_owner(s, token_id) THEN Panic(s, "NftNotFound")
    ELSE IF s.NftOwner[token_id] # from THEN Panic(s, "NftNotOwner")
    ELSE IF ~Has(s.NftApproved, token_id)
    THEN Panic(s, "NftNotApproved")
    ELSE NftImpl_do_transfer([s EXCEPT !.NftApproved = Del(@, token_id)],
                             from, to, token_id)

\* NftImpl_transfer_from that leaves the approval in place
NftImpl_transfer_from_keeps_approval(s, spender, from, to, token_id) ==
    IF ~NftImpl_require_owner(s, token_id) THEN Panic(s, "NftNotFound")
    ELSE IF s.NftOwner[token_id] # from THEN Panic(s, "NftNotOwner")
    ELSE IF ~(Has(s.NftApproved, token_id) /\ s.NftApproved[token_id] = spender)
    THEN Panic(s, "NftNotApproved")
    ELSE NftImpl_do_transfer(s, from, to, token_id)

NftImpl_transfer_from(s, spender, from, to, token_id) ==
    IF ~NftImpl_require_owner(s, token_id) THEN Panic(s, "NftNotFound")
    ELSE IF s.NftOwner[token_id] # from THEN Panic(s, "NftNotOwner")
    ELSE IF ~(Has(s.NftApproved, token_id) /\ s.NftApproved[token_id] = spender)
    THEN Panic(s, "NftNotApproved")
    ELSE NftImpl_do_transfer([s EXCEPT !.NftApproved = Del(@, token_id)],
                             from, to, token_id)

\* NftImpl_approve that keeps an approval already in the slot
NftImpl_approve_keeps_first(s, owner, approved, token_id) ==
    IF ~NftImpl_require_owner(s, token_id) THEN Panic(s, "NftNotFound")
    ELSE IF s.NftOwner[token_id] # owner THEN Panic(s, "NftNotOwner")
    ELSE Ok([s EXCEPT !.NftApproved =
                          IF Has(@, token_id) THEN @ ELSE Put(@, token_id, approved)],
            <<"nft_appr">>, NoRet)

\* NftImpl_approve that does not compare `owner` with the stored owner
NftImpl_approve_by_anyone(s, owner, approved, token_id) ==
    IF ~NftImpl_require_owner(s, token_id) THEN Panic(s, "NftNotFound")
    ELSE Ok([s EXCEPT !.NftApproved = Put(@, token_id, approved)],
            <<"nft_appr">>, NoRet)

NftImpl_approve(s, owner, approved, token_id) ==
    IF ~NftImpl_require_owner(s, token_id) THEN Panic(s, "NftNotFound")
    ELSE IF s.NftOwner[token_id] # owner THEN Panic(s, "NftNotOwner")
    ELSE Ok([s EXCEPT !.NftApproved = Put(@, token_id, approved)],
            <<"nft_appr">>, NoRet)

\* NftImpl_burn that leaves the uri record in place
NftImpl_burn_keeps_uri(s, from, token_id) ==
    IF ~NftImpl_require_owner(s, token_id) THEN Panic(s, "NftNotFound")
    ELSE IF s.NftOwner[token_id] # from THEN Panic(s, "NftNotOwner")
    ELSE LET s1 == [s EXCEPT !.NftOwner = Del(@, token_id),
                             !.NftApproved = Del(@, token_id)]
             balance == s1.NftBalance[from]
         IN  Ok([s1 EXCEPT !.NftBalance[from] = SaturatingSub(balance, 1)],
                <<"nft_burn">>, NoRet)

\* NftImpl_burn without the balance decrement
NftImpl_burn_keeps_balance(s, from, token_id) ==
    IF ~NftImpl_require_owner(s, token_id) THEN Panic(s, "NftNotFound")
    ELSE IF s.NftOwner[token_id] # from THEN Panic(s, "NftNotOwner")
    ELSE Ok([s EXCEPT !.NftOwner = Del(@, token_id),
                      !.NftUri = Del(@, token_id),
                      !.NftApproved = Del(@, token_id)],
            <<"nft_burn">>, NoRet)

NftImpl_burn(s, from, token_id) ==
    IF ~NftImpl_require_owner(s, token_id) THEN Panic(s, "NftNotFound")
    ELSE IF s.NftOwner[token_id] # from THEN Panic(s, "NftNotOwner")
    ELSE LET s1 == [s EXCEPT !.NftOwner = Del(@, token_id),
                             !.NftUri = Del(@, token_id),
                             !.NftApproved = Del(@, token_id)]
             balance == s1.NftBalance[from]
         IN  Ok([s1 EXCEPT !.NftBalance[from] = SaturatingSub(balance, 1)],
                <<"nft_burn">>, NoRet)

NftImpl_owner_of(s, token_id) ==
    IF ~NftImpl_require_owner(s, token_id) THEN Panic(s, "NftNotFound")
    ELSE Ok(s, <<>>, s.NftOwner[token_id])

NftImpl_token_uri(s, token_id) ==
    IF ~Has(s.NftUri, token_id) THEN Panic(s, "NftNotFound")
    ELSE Ok(s, <<>>, s.NftUri[token_id])

NftImpl_balance_of(s, owner) == s.NftBalance[owner]

NftImpl_total_supply(s) == s.NftCounter

\* ---------------------------------------------------- semi-fungible ledger

SftImpl_require_class_exists(s, class_id) == Has(s.SftClassUri, class_id)

SftImpl_create_class(s, name, uri, max_supply) ==
    LET class_id == s.SftClassCounter
        s1 == [s EXCEPT !.SftClassName = Put(@, class_id, name),
                        !.SftClassUri = Put(@, class_id, uri),
                        !.SftClassMaxSupply = Put(@, class_id, max_supply),
                        !.SftClassSupply = Put(@, class_id, 0)]
    IN  IF overflowChecks /\ Overflows(class_id + 1)
        THEN Panic(s1, ArithmeticOverflow)
        ELSE Ok([s1 EXCEPT !.SftClassCounter = Wrap(class_id + 1)],
                <<"sft_cls">>, class_id)

SftImpl_mint(s, to, class_id, amount) ==
    IF ~SftImpl_require_class_exists(s, class_id)
    THEN Panic(s, "SftClassNotFound")
    ELSE
    LET current_supply ==
            IF Has(s.SftClassSupply, class_id) THEN s.SftClassSupply[class_id] ELSE 0
        max_supply ==
            IF Has(s.SftClassMaxSupply, class_id)
            THEN s.SftClassMaxSupply[class_id] ELSE U64Max
        sum == current_supply + amount
    IN  \* line 72: `max_supply > 0 && current_supply + amount > max_supply`
        IF max_supply > 0 /\ overflowChecks /\ Overflows(sum)
        THEN Panic(s, ArithmeticOverflow)
        ELSE IF max_supply > 0 /\ Wrap(sum) > max_supply
        THEN Panic(s, "SftMaxSupplyExceeded")
        \* line 79: `current_supply + amount` again
        ELSE IF overflowChecks /\ Overflows(sum)
        THEN Panic(s, ArithmeticOverflow)
        ELSE
        LET s1 == [s EXCEPT !.SftClassSupply = Put(@, class_id, Wrap(sum))]
            balance == s1.SftBalance[<<to, class_id>>]
        IN  IF overflowChecks /\ Overflows(balance + amount)
            THEN Panic(s1, ArithmeticOverflow)
            ELSE Ok([s1 EXCEPT !.SftBalance[<<to, class_id>>] = Wrap(balance + amount)],
                    <<"sft_mint">>, NoRet)

\* SftImpl_deduct_balance without the balance check, subtracting as a
\* wrapping build does
SftImpl_deduct_balance_unchecked(s, from, class_id, amount) ==
    LET balance == s.SftBalance[<<from, class_id>>]
    IN  Ok([s EXCEPT !.SftBalance[<<from, class_id>>] =
                         (balance - amount) % (U64Max + 1)],
           <<>>, NoRet)

SftImpl_deduct_balance(s, from, class_id, amount) ==
    LET balance == s.SftBalance[<<from, class_id>>]
    IN  IF balance < amount
        THEN Panic(s, "SftInsufficientBalance")
        ELSE Ok([s EXCEPT !.SftBalance[<<from, class_id>>] = balance - amount],
                <<>>, NoRet)

\* SftImpl_add_balance that stores the amount instead of adding it
SftImpl_add_balance_overwrites(s, to, class_id, amount) ==
    Ok([s EXCEPT !.SftBalance[<<to, class_id>>] = amount], <<>>, NoRet)

SftImpl_add_balance(s, to, class_id, amount) ==
    LET balance == s.SftBalance[<<to, class_id>>]
    IN  IF overflowChecks /\ Overflows(balance + amount)
        THEN Panic(s, ArithmeticOverflow)
        ELSE Ok([s EXCEPT !.SftBalance[<<to, class_id>>] = Wrap(balance + amount)],
                <<>>, NoRet)

SftImpl_transfer(s, from, to, class_id, amount) ==
    IF ~SftImpl_require_class_exists(s, class_id)
    THEN Panic(s, "SftClassNotFound")
    ELSE LET d == SftImpl_deduct_balance(s, from, class_id, amount)
         IN  IF d.err # "ok" THEN d
             ELSE LET a == SftImpl_add_balance(d.st, to, class_id, amount)
                  IN  IF a.err # "ok" THEN a
                      ELSE Ok(a.st, <<"sft_xfr">>, NoRet)

\* the body of the `for i in 0..class_ids.len()` loop, from leg i on, with
\* `ev` the events published by the legs before i
RECURSIVE SftImpl_batch_loop(_, _, _, _, _, _, _)
SftImpl_batch_loop(s, from, to, class_ids, amounts, i, ev) ==
    IF i > Len(class_ids) THEN Ok(s, ev, NoRet)
    ELSE
    LET class_id == class_ids[i]
        amount == amounts[i]
    IN  IF ~SftImpl_require_class_exists(s, class_id)
        THEN Panic(s, "SftClassNotFound")
        ELSE LET d == SftImpl_deduct_balance(s, from, class_id, amount)
             IN  IF d.err # "ok" THEN d
                 ELSE LET a == SftImpl_add_balance(d.st, to, class_id, amount)
                      IN  IF a.err # "ok" THEN a
                          ELSE SftImpl_batch_loop(a.st, from, to, class_ids, amounts,
                                                  i + 1, Append(ev, "sft_xfr"))

\* SftImpl_batch_transfer that stops at the first leg that cannot be applied
\* and returns normally with the legs before it
RECURSIVE SftImpl_batch_loop_stops(_, _, _, _, _, _, _)
SftImpl_batch_loop_stops(s, from, to, class_ids, amounts, i, ev) ==
    IF i > Len(class_ids) THEN Ok(s, ev, NoRet)
    ELSE LET r == SftImpl_transfer(s, from, to, class_ids[i], amounts[i])
         IN  IF r.err # "ok" THEN Ok(s, ev, NoRet)
             ELSE SftImpl_batch_loop_stops(r.st, from, to, class_ids, amounts,
                                           i + 1, Append(ev, "sft_xfr"))

SftImpl_batch_transfer_partial(s, from, to, class_ids, amounts) ==
    IF Len(class_ids) # Len(amounts)
    THEN Panic(s, "SftBatchLengthMismatch")
    ELSE SftImpl_batch_loop_stops(s, from, to, class_ids, amounts, 1, <<>>)

\* SftImpl_batch_transfer that publishes one event for the whole batch
SftImpl_batch_transfer_one_event(s, from, to, class_ids, amounts) ==
    IF Len(class_ids) # Len(amounts)
    THEN Panic(s, "SftBatchLengthMismatch")
    ELSE LET r == SftImpl_batch_loop(s, from, to, class_ids, amounts, 1, <<>>)
         IN  IF r.err # "ok" THEN r ELSE Ok(r.st, <<"sft_xfr">>, NoRet)

\* SftImpl_batch_transfer without the length check: it walks the common
\* prefix of the two vectors
SftImpl_batch_transfer_prefix(s, from, to, class_ids, amounts) ==
    LET n == IF Len(class_ids) < Len(amounts) THEN Len(class_ids) ELSE Len(amounts)
    IN  SftImpl_batch_loop(s, from, to, SubSeq(class_ids, 1, n),
                           SubSeq(amounts, 1, n), 1, <<>>)

SftImpl_batch_transfer(s, from, to, class_ids, amounts) ==
    IF Len(class_ids) # Len(amounts)
    THEN Panic(s, "SftBatchLengthMismatch")
    ELSE SftImpl_batch_loop(s, from, to, class_ids, amounts, 1, <<>>)

SftImpl_burn(s, from, class_id, amount) ==
    IF ~SftImpl_require_class_exists(s, class_id)
    THEN Panic(s, "SftClassNotFound")
    ELSE LET d == SftImpl_deduct_balance(s, from, class_id, amount)
         IN  IF d.err # "ok" THEN d
             ELSE
             LET s1 == d.st
                 current_supply ==
                     IF Has(s1.SftClassSupply, class_id)
                     THEN s1.SftClassSupply[class_id] ELSE 0
             IN  Ok([s1 EXCEPT !.SftClassSupply =
                                    Put(@, class_id, SaturatingSub(current_supply, amount))],
                    <<"sft_burn">>, NoRet)

SftImpl_balance_of(s, owner, class_id) == s.SftBalance[<<owner, class_id>>]

\* sft_class_supply: <<>> stands for the SftClassNotFound panic
SftImpl_class_supply(s, class_id) ==
    IF ~SftImpl_require_class_exists(s, class_id) THEN <<>>
    ELSE <<IF Has(s.SftClassSupply, class_id) THEN s.SftClassSupply[class_id] ELSE 0>>

SftImpl_class_uri(s, class_id) ==
    IF ~SftImpl_require_class_exists(s, class_id) THEN Panic(s, "SftClassNotFound")
    ELSE Ok(s, <<>>, s.SftClassUri[class_id])

\* ------------------------------------------------------------- extensions

PausableImpl_pause(s) == Ok([s EXCEPT !.Paused = TRUE], <<"paused">>, NoRet)

PausableImpl_unpause(s) == Ok([s EXCEPT !.Paused = FALSE], <<"unpaused">>, NoRet)

WhitelistImpl_enable(s) == Ok([s EXCEPT !.WhitelistEnabled = TRUE], <<"wl_toggle">>, NoRet)

\* WhitelistImpl_disable that also forgets the members
WhitelistImpl_disable_clears(s) ==
    Ok([s EXCEPT !.WhitelistEnabled = FALSE, !.Whitelisted = {}],
       <<"wl_toggle">>, NoRet)

WhitelistImpl_disable(s) == Ok([s EXCEPT !.WhitelistEnabled = FALSE], <<"wl_toggle">>, NoRet)

WhitelistImpl_add(s, addr) ==
    Ok([s EXCEPT !.Whitelisted = @ \cup {addr}], <<"wl_upd">>, NoRet)

WhitelistImpl_remove(s, addr) ==
    Ok([s EXCEPT !.Whitelisted = @ \ {addr}], <<"wl_upd">>, NoRet)

\* RoyaltyImpl_set_royalty without the range check
RoyaltyImpl_set_royalty_unchecked(s, receiver, basis_points) ==
    Ok([s EXCEPT !.RoyaltyReceiver = <<receiver>>,
                 !.RoyaltyBasisPoints = basis_points],
       <<"royalty">>, NoRet)

RoyaltyImpl_set_royalty(s, receiver, basis_points) ==
    IF basis_points > MaxBasisPoints THEN Panic(s, "InvalidBasisPoints")
    ELSE Ok([s EXCEPT !.RoyaltyReceiver = <<receiver>>,
                      !.RoyaltyBasisPoints = basis_points],
            <<"royalty">>, NoRet)

\* get_royalty returns the pair <<receiver, bps>>
RoyaltyImpl_get_royalty(s) ==
    IF s.RoyaltyReceiver = <<>> THEN Panic(s, "RoyaltyNotSet")
    ELSE Ok(s, <<>>, <<s.RoyaltyReceiver[1], s.RoyaltyBasisPoints>>)

\* line 54: `(sale_price * bps as u64) / 10_000`, the product in the word of
\* sale_price
RoyaltyImpl_calculate(s, sale_price) ==
    LET bps == s.RoyaltyBasisPoints
        product == sale_price * bps
    IN  IF overflowChecks /\ product > SalePriceMax
        THEN Panic(s, ArithmeticOverflow)
        ELSE Ok(s, <<>>, (product % (SalePriceMax + 1)) \div MaxBasisPoints)

\* ------------------------------------------------- entry points (lib.rs)

\* the guards of an entry point, in the order the code runs them: the first
\* one that panics ends the invocation, otherwise the body `r` runs
Guarded(s, guards, r) ==
    IF \E i \in 1..Len(guards) : guards[i] # ""
    THEN Panic(s, guards[CHOOSE i \in 1..Len(guards) :
                            /\ guards[i] # ""
                            /\ \A j \in 1..(i - 1) : guards[j] = ""])
    ELSE r

initialize(s, admin, name, symbol) ==
    \* line 84: panic!("already initialised"), a message and not a TokenError
    IF s.Admin # <<>> THEN Panic(s, "already initialised")
    ELSE Ok([s EXCEPT !.Admin = <<admin>>,
                      !.Name = <<name>>,
                      !.Symbol = <<symbol>>,
                      !.Paused = FALSE,
                      !.NftCounter = 0,
                      !.SftClassCounter = 0],
            <<"init">>, NoRet)

\* set_admin without the admin guard
set_admin_by_anyone(s, caller, new_admin) ==
    Ok([s EXCEPT !.Admin = <<new_admin>>], <<"admin">>, NoRet)

set_admin(s, caller, new_admin) ==
    Guarded(s, <<require_admin(s, caller)>>,
            Ok([s EXCEPT !.Admin = <<new_admin>>], <<"admin">>, NoRet))

nft_mint(s, caller, to, uri) ==
    Guarded(s, <<require_admin(s, caller), require_not_paused(s)>>,
            NftImpl_mint(s, to, uri))

\* nft_transfer without the whitelist check of the recipient
nft_transfer_unlisted(s, caller, from, to, token_id) ==
    Guarded(s, <<require_auth(caller, from), require_not_paused(s)>>,
            NftImpl_transfer(s, from, to, token_id))

nft_transfer(s, caller, from, to, token_id) ==
    Guarded(s, <<require_auth(caller, from),
                 require_not_paused(s),
                 IF is_enabled(s) THEN require_whitelisted(s, to) ELSE "">>,
            NftImpl_transfer(s, from, to, token_id))

nft_approve(s, caller, owner, approved, token_id) ==
    Guarded(s, <<require_auth(caller, owner)>>,
            NftImpl_approve(s, owner, approved, token_id))

nft_transfer_from(s, caller, spender, from, to, token_id) ==
    Guarded(s, <<require_auth(caller, spender), require_not_paused(s)>>,
            NftImpl_transfer_from(s, spender, from, to, token_id))

\* nft_burn with the pause guard of the transfers
nft_burn_pausable(s, caller, from, token_id) ==
    Guarded(s, <<require_auth(caller, from), require_not_paused(s)>>,
            NftImpl_burn(s, from, token_id))

nft_burn(s, caller, from, token_id) ==
    Guarded(s, <<require_auth(caller, from)>>,
            NftImpl_burn(s, from, token_id))

sft_create_class(s, caller, name, uri, max_supply) ==
    Guarded(s, <<require_admin(s, caller)>>,
            SftImpl_create_class(s, name, uri, max_supply))

sft_mint(s, caller, to, class_id, amount) ==
    Guarded(s, <<require_admin(s, caller), require_not_paused(s)>>,
            SftImpl_mint(s, to, class_id, amount))

sft_transfer(s, caller, from, to, class_id, amount) ==
    Guarded(s, <<require_auth(caller, from),
                 require_not_paused(s),
                 IF is_enabled(s) THEN require_whitelisted(s, to) ELSE "">>,
            SftImpl_transfer(s, from, to, class_id, amount))

\* sft_batch_transfer with the whitelist check of sft_transfer
sft_batch_transfer_listed(s, caller, from, to, class_ids, amounts) ==
    Guarded(s, <<require_auth(caller, from),
                 require_not_paused(s),
                 IF is_enabled(s) THEN require_whitelisted(s, to) ELSE "">>,
            SftImpl_batch_transfer(s, from, to, class_ids, amounts))

\* sft_batch_transfer without the pause guard
sft_batch_transfer_unguarded(s, caller, from, to, class_ids, amounts) ==
    Guarded(s, <<require_auth(caller, from)>>,
            SftImpl_batch_transfer(s, from, to, class_ids, amounts))

sft_batch_transfer(s, caller, from, to, class_ids, amounts) ==
    Guarded(s, <<require_auth(caller, from), require_not_paused(s)>>,
            SftImpl_batch_transfer(s, from, to, class_ids, amounts))

sft_burn(s, caller, from, class_id, amount) ==
    Guarded(s, <<require_auth(caller, from)>>,
            SftImpl_burn(s, from, class_id, amount))

pause(s, caller) ==
    Guarded(s, <<require_admin(s, caller)>>, PausableImpl_pause(s))

unpause(s, caller) ==
    Guarded(s, <<require_admin(s, caller)>>, PausableImpl_unpause(s))

set_royalty(s, caller, receiver, basis_points) ==
    Guarded(s, <<require_admin(s, caller)>>,
            RoyaltyImpl_set_royalty(s, receiver, basis_points))

get_royalty(s) == RoyaltyImpl_get_royalty(s)

royalty_amount(s, sale_price) == RoyaltyImpl_calculate(s, sale_price)

enable_whitelist(s, caller) ==
    Guarded(s, <<require_admin(s, caller)>>, WhitelistImpl_enable(s))

disable_whitelist(s, caller) ==
    Guarded(s, <<require_admin(s, caller)>>, WhitelistImpl_disable(s))

add_to_whitelist(s, caller, addr) ==
    Guarded(s, <<require_admin(s, caller)>>, WhitelistImpl_add(s, addr))

remove_from_whitelist(s, caller, addr) ==
    Guarded(s, <<require_admin(s, caller)>>, WhitelistImpl_remove(s, addr))

\* read-only entry points
nft_owner_of(s, token_id) == NftImpl_owner_of(s, token_id)
nft_token_uri(s, token_id) == NftImpl_token_uri(s, token_id)
nft_balance_of(s, owner) == NftImpl_balance_of(s, owner)
nft_total_supply(s) == NftImpl_total_supply(s)
sft_balance_of(s, owner, class_id) == SftImpl_balance_of(s, owner, class_id)
sft_class_supply(s, class_id) == SftImpl_class_supply(s, class_id)
sft_class_uri(s, class_id) == SftImpl_class_uri(s, class_id)

\* ------------------------------------------------------- host invocation

\* What an invocation leaves behind: the host keeps the writes and the
\* events of an invocation that returns and discards those of one that
\* panics.
Committed(s, r) == IF r.err = "ok" THEN r.st ELSE s
Published(r) == IF r.err = "ok" THEN r.ev ELSE <<>>

\* One invocation of entry point `op` with result `r`.  last.discarded tells
\* that the invocation panicked after it had already written to storage.
Invoke(op, r) ==
    /\ storage' = Committed(storage, r)
    /\ emitted' = Published(r)
    /\ last' = [op |-> op, err |-> r.err, ret |-> r.ret,
                discarded |-> (r.err # "ok" /\ r.st # storage)]
    /\ burned' = burned \cup (DOMAIN storage.NftOwner
                                 \ DOMAIN Committed(storage, r).NftOwner)
    /\ UNCHANGED overflowChecks

\* ------------------------------------------------------------------ actions

BatchVectors(S) == UNION {[1..n -> S] : n \in 0..MaxBatch}

Initialize ==
    \E admin \in Addr, name \in Names, symbol \in Symbols :
        Invoke("initialize", initialize(storage, admin, name, symbol))

SetAdmin ==
    \E caller \in Addr, new_admin \in Addr :
        Invoke("set_admin", set_admin(storage, caller, new_admin))

\* nft_mint at any value of the counter
NftMintAny ==
    \E caller \in Addr, to \in Addr, uri \in Uris :
        Invoke("nft_mint", nft_mint(storage, caller, to, uri))

\* nft_mint while fewer than MaxTokens tokens have been issued
NftMint ==
    /\ storage.NftCounter < MaxTokens
    /\ NftMintAny

NftTransfer ==
    \E caller \in Addr, from \in Addr, to \in Addr, token_id \in TokenIds :
        Invoke("nft_transfer", nft_transfer(storage, caller, from, to, token_id))

NftApprove ==
    \E caller \in Addr, owner \in Addr, approved \in Addr, token_id \in TokenIds :
        Invoke("nft_approve", nft_approve(storage, caller, owner, approved, token_id))

NftTransferFrom ==
    \E caller \in Addr, spender \in Addr, from \in Addr, to \in Addr,
       token_id \in TokenIds :
        Invoke("nft_transfer_from",
               nft_transfer_from(storage, caller, spender, from, to, token_id))

NftBurn ==
    \E caller \in Addr, from \in Addr, token_id \in TokenIds :
        Invoke("nft_burn", nft_burn(storage, caller, from, token_id))

\* sft_create_class at any value of the counter
SftCreateClassAny ==
    \E caller \in Addr, name \in Names, uri \in Uris,
       max_supply \in MaxSupplyInputs :
        Invoke("sft_create_class",
               sft_create_class(storage, caller, name, uri, max_supply))

\* sft_create_class while fewer than MaxClasses classes have been created
SftCreateClass ==
    /\ storage.SftClassCounter < MaxClasses
    /\ SftCreateClassAny

SftMint ==
    \E caller \in Addr, to \in Addr, class_id \in ClassIdInputs, amount \in Amounts :
        Invoke("sft_mint", sft_mint(storage, caller, to, class_id, amount))

SftTransfer ==
    \E caller \in Addr, from \in Addr, to \in Addr, class_id \in ClassIdInputs,
       amount \in Amounts :
        Invoke("sft_transfer",
               sft_transfer(storage, caller, from, to, class_id, amount))

SftBatchTransfer ==
    \E caller \in Addr, from \in Addr, to \in Addr,
       class_ids \in BatchVectors(ClassIdInputs), amounts \in BatchVectors(Amounts) :
        Invoke("sft_batch_transfer",
               sft_batch_transfer(storage, caller, from, to, class_ids, amounts))

SftBurn ==
    \E caller \in Addr, from \in Addr, class_id \in ClassIdInputs, amount \in Amounts :
        Invoke("sft_burn", sft_burn(storage, caller, from, class_id, amount))

Pause == \E caller \in Addr : Invoke("pause", pause(storage, caller))

Unpause == \E caller \in Addr : Invoke("unpause", unpause(storage, caller))

SetRoyalty ==
    \E caller \in Addr, receiver \in Addr, basis_points \in BasisPointInputs :
        Invoke("set_royalty", set_royalty(storage, caller, receiver, basis_points))

RoyaltyAmount ==
    \E sale_price \in SalePrices :
        Invoke("royalty_amount", royalty_amount(storage, sale_price))

EnableWhitelist ==
    \E caller \in Addr : Invoke("enable_whitelist", enable_whitelist(storage, caller))

DisableWhitelist ==
    \E caller \in Addr : Invoke("disable_whitelist", disable_whitelist(storage, caller))

AddToWhitelist ==
    \E caller \in Addr, addr \in Addr :
        Invoke("add_to_whitelist", add_to_whitelist(storage, caller, addr))

RemoveFromWhitelist ==
    \E caller \in Addr, addr \in Addr :
        Invoke("remove_from_whitelist", remove_from_whitelist(storage, caller, addr))

\* ----------------------------------------------------------- specifications

Init ==
    /\ storage = EmptyStorage
    /\ overflowChecks \in BOOLEAN
    /\ emitted = <<>>
    /\ last = [op |-> "deploy", err |-> "ok", ret |-> NoRet, discarded |-> FALSE]
    /\ burned = {}

NextLifecycle == Initialize \/ Pause \/ Unpause

NextNft == NftMint \/ NftTransfer \/ NftApprove \/ NftTransferFrom \/ NftBurn

NextSft == SftCreateClass \/ SftMint \/ SftTransfer \/ SftBatchTransfer \/ SftBurn

NextWhitelist ==
    EnableWhitelist \/ DisableWhitelist \/ AddToWhitelist \/ RemoveFromWhitelist

NextRoyalty == SetRoyalty \/ RoyaltyAmount

Next == NextLifecycle \/ SetAdmin \/ NextNft \/ NextSft \/ NextWhitelist \/ NextRoyalty

\* the whole contract
Spec == Init /\ [][Next]_vars

\* the NFT ledger with initialisation and the pause switch
SpecNft == Init /\ [][NextLifecycle \/ NextNft]_vars

\* the semi-fungible ledger with initialisation and the pause switch
SpecSft == Init /\ [][NextLifecycle \/ NextSft]_vars

\* Both ledgers with initialisation and the pause switch.  The two ledgers
\* share no storage key (the NFT functions touch only the Nft* keys, the SFT
\* functions only the Sft* keys), so the behaviours explored are those that
\* issue tokens in one ledger only: all of the NFT ledger's states and all of
\* the SFT ledger's states, each with the pause flag set and cleared.
NftUnused == storage.NftCounter = 0
SftUnused == storage.SftClassCounter = 0

NextOneLedger ==
    \/ Initialize
    \/ Pause
    \/ Unpause
    \/ SftUnused /\ NftMint
    \/ SftUnused /\ NftTransfer
    \/ SftUnused /\ NftApprove
    \/ SftUnused /\ NftTransferFrom
    \/ SftUnused /\ NftBurn
    \/ NftUnused /\ SftCreateClass
    \/ NftUnused /\ SftMint
    \/ NftUnused /\ SftTransfer
    \/ NftUnused /\ SftBatchTransfer
    \/ NftUnused /\ SftBurn

SpecPause == Init /\ [][NextOneLedger]_vars

\* Both ledgers, one at a time as in SpecPause, with the whitelist extension,
\* without the pause switch and without the batch transfer (the one entry
\* point that moves SFT balances besides sft_transfer; it reads no whitelist
\* key and writes only balances that sft_transfer can write as well).
NextListed ==
    \/ Initialize
    \/ EnableWhitelist
    \/ DisableWhitelist
    \/ AddToWhitelist
    \/ RemoveFromWhitelist
    \/ SftUnused /\ NftMint
    \/ SftUnused /\ NftTransfer
    \/ SftUnused /\ NftApprove
    \/ SftUnused /\ NftTransferFrom
    \/ SftUnused /\ NftBurn
    \/ NftUnused /\ SftCreateClass
    \/ NftUnused /\ SftMint
    \/ NftUnused /\ SftTransfer
    \/ NftUnused /\ SftBurn

SpecWhitelist == Init /\ [][NextListed]_vars

\* The contract's configuration (admin, pause switch, whitelist, royalty)
\* with no token issued.
NextConfig == NextLifecycle \/ SetAdmin \/ NextWhitelist \/ NextRoyalty

SpecConfig == Init /\ [][NextConfig]_vars

\* The NFT ledger with no bound on the number of mints: the counter runs
\* through the whole of the model's word, as NftCounter does through u64 after
\* 2^64 mints.  Transfers and burns address the ids of TokenIds.
NextNftIds == Initialize \/ NftMintAny \/ NftTransfer \/ NftBurn

SpecNftIds == Init /\ [][NextNftIds]_vars

\* Class creation with no bound on the number of classes: the class counter
\* runs through the whole of the model's word, as SftClassCounter does
\* through u64 after 2^64 creations.  No units are minted here; SpecSft has
\* the mints, transfers and burns of a ledger of MaxClasses classes.
NextSftIds == Initialize \/ SftCreateClassAny

SpecSftIds == Init /\ [][NextSftIds]_vars

\* ------------------------------------------------------------------- claims

Admins == IF storage.Admin = <<>> THEN {} ELSE {storage.Admin[1]}
OwnedBy(s, a) == {id \in DOMAIN s.NftOwner : s.NftOwner[id] = a}

RECURSIVE SumOver(_, _)
SumOver(f, S) ==
    IF S = {} THEN 0
    ELSE LET x == CHOOSE y \in S : TRUE IN f[x] + SumOver(f, S \ {x})

Classes(s) == DOMAIN s.SftClassUri
HeldOf(s, c) == SumOver([a \in Addr |-> sft_balance_of(s, a, c)], Addr)

\* C2: after any sequence of SFT calls, for every existing class the sum over
\* all holders of sft_balance_of equals sft_class_supply.
C2_BalancesSumToSupply ==
    \A c \in Classes(storage) : HeldOf(storage, c) = sft_class_supply(storage, c)[1]

SupplyOf(s, c) == sft_class_supply(s, c)[1]
MaxSupplyOf(s, c) == s.SftClassMaxSupply[c]

\* C3: a class created with max_supply = M > 0 never has a supply above M,
\* and an sft_mint (by the admin, not paused) whose amount would take the
\* supply above M fails and leaves the storage, so the supply and every
\* balance, unchanged.  (The claim names the error SftMaxSupplyExceeded; the
\* formula asks only that the call fails, so that an overflow panic of a
\* build that checks `+` still counts as the failure the claim promises.)
C3_CapHoldsAndExcessMintFails ==
    \A c \in Classes(storage) :
        MaxSupplyOf(storage, c) > 0 =>
            /\ SupplyOf(storage, c) <= MaxSupplyOf(storage, c)
            /\ \A caller \in Admins, to \in Addr, amount \in Amounts :
                (~is_paused(storage)
                    /\ SupplyOf(storage, c) + amount > MaxSupplyOf(storage, c))
                => LET r == sft_mint(storage, caller, to, c, amount)
                   IN  /\ r.err # "ok"
                       /\ Committed(storage, r) = storage

\* The storage after legs 1..k of a batch, each applied as one
\* SftImpl_transfer; <<>> when one of them fails.
RECURSIVE AfterLegs(_, _, _, _, _, _)
AfterLegs(s, from, to, class_ids, amounts, k) ==
    IF k = 0 THEN <<s>>
    ELSE LET before == AfterLegs(s, from, to, class_ids, amounts, k - 1)
         IN  IF before = <<>> THEN <<>>
             ELSE LET r == SftImpl_transfer(before[1], from, to,
                                            class_ids[k], amounts[k])
                  IN  IF r.err = "ok" THEN <<r.st>> ELSE <<>>

\* some leg i fails, at the time it runs, for a missing class or an
\* insufficient balance of `from`
SomeLegFails(s, from, to, class_ids, amounts) ==
    \E i \in 1..Len(class_ids) :
        LET before == AfterLegs(s, from, to, class_ids, amounts, i - 1)
        IN  /\ before # <<>>
            /\ \/ class_ids[i] \notin Classes(before[1])
               \/ sft_balance_of(before[1], from, class_ids[i]) < amounts[i]

EqualLength == {p \in BatchVectors(ClassIdInputs) \X BatchVectors(Amounts) :
                    Len(p[1]) = Len(p[2])}

\* C4: sft_batch_transfer is all-or-nothing: when some leg fails (class not
\* found, or balance of `from` insufficient once the legs before it have been
\* applied), the call leaves behind the storage it found (every balance and
\* every supply) and publishes no event.
C4_BatchAllOrNothing ==
    \A from \in Addr, to \in Addr, p \in EqualLength :
        SomeLegFails(storage, from, to, p[1], p[2])
        => LET r == sft_batch_transfer(storage, from, from, to, p[1], p[2])
           IN  /\ Committed(storage, r) = storage
               /\ Published(r) = <<>>

\* C4 witness: a batch has just failed on an insufficient balance after
\* earlier legs had already moved balances, and those writes were discarded.
C4_Witness ==
    /\ last.op = "sft_batch_transfer"
    /\ last.err = "SftInsufficientBalance"
    /\ last.discarded

UnequalLength == {p \in BatchVectors(ClassIdInputs) \X BatchVectors(Amounts) :
                      Len(p[1]) # Len(p[2])}

\* C5: sft_batch_transfer with class_ids and amounts of different lengths
\* fails before any leg is processed: the call never succeeds, it panics with
\* the storage still as it found it (no balance written, not even one the
\* host would roll back) and with no event published, and the panic is
\* SftBatchLengthMismatch whenever the call passed the entry point's guards
\* (authorised by `from`, not paused) -- whatever the legs of the common
\* prefix would have done on their own.
C5_LengthMismatchFailsFirst ==
    \A caller \in Addr, from \in Addr, to \in Addr, p \in UnequalLength :
        LET r == sft_batch_transfer(storage, caller, from, to, p[1], p[2])
        IN  /\ r.err # "ok"
            /\ r.st = storage
            /\ r.ev = <<>>
            /\ Committed(storage, r) = storage
            /\ (caller = from /\ ~is_paused(storage))
                   => r.err = "SftBatchLengthMismatch"

\* C5 witness: a batch has just failed with SftBatchLengthMismatch in a state
\* where an address holds units of a class, so that a leg of the common
\* prefix could have been applied.
C5_Witness ==
    /\ last.op = "sft_batch_transfer"
    /\ last.err = "SftBatchLengthMismatch"
    /\ \E a \in Addr, c \in Classes(storage) : sft_balance_of(storage, a, c) > 0

C7_OverdrawFails ==
    /\ \A k \in DOMAIN storage.SftBalance : storage.SftBalance[k] \in 0..U64Max
    /\ \A c \in Classes(storage), from \in Addr, to \in Addr, amount \in Amounts :
        amount > sft_balance_of(storage, from, c) =>
            LET x == sft_transfer(storage, from, from, to, c, amount)
                b == sft_burn(storage, from, from, c, amount)
            IN  /\ x.err # "ok" /\ Committed(storage, x) = storage
                /\ (~is_paused(storage)
                        /\ (is_enabled(storage) => is_whitelisted(storage, to)))
                       => x.err = "SftInsufficientBalance"
                /\ b.err = "SftInsufficientBalance"
                /\ Committed(storage, b) = storage

\* C7 witness: an sft_burn has just failed with SftInsufficientBalance while
\* its class has units in circulation.
C7_Witness ==
    /\ last.op = "sft_burn" /\ last.err = "SftInsufficientBalance"
    /\ \E a \in Addr, c \in Classes(storage) : sft_balance_of(storage, a, c) > 0

\* A second nft_transfer_from by `spender` on `token_id` in storage s never
\* succeeds, and it fails with NftNotApproved when it is authorised, not
\* paused, and names the token's current owner as `from`.
RetryRejected(s, spender, token_id) ==
    \A from \in Addr, to \in Addr :
        LET r == nft_transfer_from(s, spender, spender, from, to, token_id)
        IN  /\ r.err # "ok"
            /\ (~is_paused(s) /\ Has(s.NftOwner, token_id)
                    /\ s.NftOwner[token_id] = from)
                   => r.err = "NftNotApproved"

\* in storage s: a successful nft_transfer_from leaves a storage in which the
\* same spender's next attempt on the token is rejected, and while a token's
\* approval slot is empty every spender's attempt is rejected
SingleUse(s) ==
    /\ \A spender \in Addr, from \in Addr, to \in Addr, token_id \in TokenIds :
        LET r == nft_transfer_from(s, spender, spender, from, to, token_id)
        IN  r.err = "ok" => RetryRejected(r.st, spender, token_id)
    /\ \A spender \in Addr, token_id \in TokenIds :
        ~Has(s.NftApproved, token_id) => RetryRejected(s, spender, token_id)

\* C8: approval is single-use.  After a successful nft_transfer_from the same
\* spender's second attempt on the token fails with NftNotApproved, and it
\* keeps failing until an nft_approve: an empty approval slot is filled by
\* nothing but a successful nft_approve.
C8_ApprovalSingleUse ==
    [][ /\ SingleUse(storage)
        /\ SingleUse(storage')
        /\ \A token_id \in TokenIds :
            (~Has(storage.NftApproved, token_id) /\ Has(storage'.NftApproved, token_id))
            => (last'.op = "nft_approve" /\ last'.err = "ok") ]_vars

\* C8 witness: an nft_transfer_from has just succeeded and the token it may
\* have moved exists with an empty approval slot.
C8_Witness ==
    /\ last.op = "nft_transfer_from" /\ last.err = "ok"
    /\ emitted = <<"nft_xfr">>
    /\ \E token_id \in DOMAIN storage.NftOwner : ~Has(storage.NftApproved, token_id)

\* the outcome the pause switch imposes on one call: `authorised` tells that
\* the guard the entry point runs before the pause check passed
Blocked(s, authorised, r) ==
    /\ is_paused(s) =>
        /\ r.err # "ok"
        /\ Committed(s, r) = s
        /\ authorised => r.err = "Paused"
    /\ ~is_paused(s) => r.err # "Paused"

EveryBatch == BatchVectors(ClassIdInputs) \X BatchVectors(Amounts)

\* C9: while the pause flag is true every nft_mint, nft_transfer,
\* nft_transfer_from, sft_mint, sft_transfer and sft_batch_transfer fails --
\* with Paused as soon as its caller is the one the entry point asks for --
\* and changes nothing in storage (no owner, balance, supply, counter or
\* approval); while the flag is false no such call fails with Paused.
C9_PauseBlocksMintAndTransfer ==
    /\ \A caller \in Addr, to \in Addr, uri \in Uris :
        Blocked(storage, caller \in Admins, nft_mint(storage, caller, to, uri))
    /\ \A caller \in Addr, to \in Addr, c \in ClassIdInputs, amount \in Amounts :
        Blocked(storage, caller \in Admins, sft_mint(storage, caller, to, c, amount))
    /\ \A caller \in Addr, from \in Addr, to \in Addr :
        /\ \A token_id \in TokenIds :
            /\ Blocked(storage, caller = from,
                       nft_transfer(storage, caller, from, to, token_id))
            /\ \A spender \in Addr :
                Blocked(storage, caller = spender,
                        nft_transfer_from(storage, caller, spender, from, to, token_id))
        /\ \A c \in ClassIdInputs, amount \in Amounts :
            Blocked(storage, caller = from,
                    sft_transfer(storage, caller, from, to, c, amount))
        /\ \A p \in EveryBatch :
            Blocked(storage, caller = from,
                    sft_batch_transfer(storage, caller, from, to, p[1], p[2]))

\* C9 witness: the contract is paused, units of a class are in circulation,
\* and an sft_batch_transfer has just failed with Paused.
C9_Witness ==
    /\ is_paused(storage)
    /\ last.op = "sft_batch_transfer" /\ last.err = "Paused"
    /\ \E a \in Addr, c \in Classes(storage) : sft_balance_of(storage, a, c) > 0

Unpaused(s) == [s EXCEPT !.Paused = FALSE]

\* r is the successful outcome that q, the same call with the pause flag
\* cleared, has: same writes, same events
AsWhenUnpaused(r, q) ==
    /\ r.err = "ok" /\ q.err = "ok"
    /\ r.st = [q.st EXCEPT !.Paused = TRUE]
    /\ r.ev = q.ev

\* C10: while the pause flag is true, nft_burn by the owner of an existing
\* token, nft_approve by the owner, and sft_burn of an amount within the
\* holder's balance all succeed with the effects they have when not paused:
\* the burn removes owner, uri and approval and takes one from the owner's
\* balance, the approve fills the slot, the sft_burn takes the amount from
\* the holder's balance.
C10_PauseLeavesBurnAndApprove ==
    is_paused(storage) =>
        /\ \A token_id \in DOMAIN storage.NftOwner :
            LET owner == storage.NftOwner[token_id]
                b == nft_burn(storage, owner, owner, token_id)
            IN  /\ AsWhenUnpaused(b, nft_burn(Unpaused(storage), owner, owner, token_id))
                /\ ~Has(b.st.NftOwner, token_id)
                /\ ~Has(b.st.NftUri, token_id)
                /\ ~Has(b.st.NftApproved, token_id)
                /\ nft_balance_of(b.st, owner) = nft_balance_of(storage, owner) - 1
                /\ \A approved \in Addr :
                    LET a == nft_approve(storage, owner, owner, approved, token_id)
                    IN  /\ AsWhenUnpaused(a, nft_approve(Unpaused(storage), owner, owner,
                                                         approved, token_id))
                        /\ a.st = [storage EXCEPT
                                      !.NftApproved = Put(@, token_id, approved)]
        /\ \A c \in Classes(storage), holder \in Addr, amount \in Amounts :
            amount <= sft_balance_of(storage, holder, c) =>
                LET b == sft_burn(storage, holder, holder, c, amount)
                IN  /\ AsWhenUnpaused(b, sft_burn(Unpaused(storage), holder, holder,
                                                  c, amount))
                    /\ sft_balance_of(b.st, holder, c)
                           = sft_balance_of(storage, holder, c) - amount

\* C10 witness: the contract is paused and an nft_burn has just succeeded.
C10_Witness ==
    /\ is_paused(storage)
    /\ last.op = "nft_burn" /\ last.err = "ok"
    /\ emitted = <<"nft_burn">>

\* storage s with the whitelist flag cleared / with membership set W
FlagOff(s) == [s EXCEPT !.WhitelistEnabled = FALSE]
WithMembers(s, W) == [s EXCEPT !.Whitelisted = W]

\* the calls C11 is about: an nft_transfer by the owner of an existing token
\* and an sft_transfer of an amount the sender holds, as <<kind, from, to, x, y>>
OwnerTransfers(s) ==
    {<<"nft", s.NftOwner[id], to, id, 0>> : id \in DOMAIN s.NftOwner, to \in Addr}
    \cup {<<"sft", p[1], p[2], p[3], p[4]>> :
              p \in {q \in Addr \X Addr \X Classes(s) \X Amounts :
                         q[4] <= sft_balance_of(s, q[1], q[3])}}

TransferIn(s, c) ==
    IF c[1] = "nft" THEN nft_transfer(s, c[2], c[2], c[3], c[4])
    ELSE sft_transfer(s, c[2], c[2], c[3], c[4], c[5])

\* C11: with the whitelist flag set, an nft_transfer or sft_transfer to a
\* recipient that is not a member fails with NotWhitelisted and changes
\* nothing; after add_to_whitelist(recipient) by the admin the same transfer
\* succeeds; with the flag cleared the outcome of the transfer is the same
\* for every membership set.  (The contract is not paused in SpecWhitelist.)
C11_WhitelistGatesRecipient ==
    \A c \in OwnerTransfers(storage) :
        LET to == c[3]
            r == TransferIn(storage, c)
        IN  /\ (is_enabled(storage) /\ ~is_whitelisted(storage, to)) =>
                /\ r.err = "NotWhitelisted"
                /\ Committed(storage, r) = storage
                /\ \A admin \in Admins :
                    LET a == add_to_whitelist(storage, admin, to)
                    IN  /\ a.err = "ok"
                        /\ TransferIn(a.st, c).err = "ok"
            /\ ~is_enabled(storage) =>
                \A W \in SUBSET Addr :
                    LET q == TransferIn(WithMembers(storage, W), c)
                    IN  /\ q.err = r.err
                        /\ q.ev = r.ev
                        /\ WithMembers(q.st, storage.Whitelisted) = r.st

\* C11 witness: the whitelist is enabled, an nft_transfer of an existing token
\* has just failed with NotWhitelisted, and the other address is a member.
C11_Witness ==
    /\ is_enabled(storage)
    /\ last.op = "nft_transfer" /\ last.err = "NotWhitelisted"
    /\ storage.NftOwner # EmptyMap
    /\ Cardinality(storage.Whitelisted) = 1

\* r made an address outside the whitelist the new owner of token_id
NewUnlistedOwner(s, r, token_id) ==
    /\ r.err = "ok"
    /\ Has(r.st.NftOwner, token_id)
    /\ ~is_whitelisted(s, r.st.NftOwner[token_id])
    /\ ~(Has(s.NftOwner, token_id) /\ s.NftOwner[token_id] = r.st.NftOwner[token_id])

\* r raised the SFT balance of an address outside the whitelist
UnlistedBalanceRaised(s, r) ==
    /\ r.err = "ok"
    /\ \E a \in Addr, c \in ClassIdInputs :
        /\ ~is_whitelisted(s, a)
        /\ sft_balance_of(r.st, a, c) > sft_balance_of(s, a, c)

\* C12: while the whitelist flag is true, no successful nft_transfer,
\* nft_transfer_from, sft_transfer or sft_batch_transfer makes an address that
\* is not whitelisted the new owner of an NFT or raises its SFT balance.
C12_OnlyListedReceive ==
    is_enabled(storage) =>
        \A caller \in Addr, from \in Addr, to \in Addr :
            /\ \A token_id \in TokenIds :
                /\ ~NewUnlistedOwner(storage,
                        nft_transfer(storage, caller, from, to, token_id), token_id)
                /\ \A spender \in Addr :
                    ~NewUnlistedOwner(storage,
                        nft_transfer_from(storage, caller, spender, from, to, token_id),
                        token_id)
            /\ \A c \in ClassIdInputs, amount \in Amounts :
                ~UnlistedBalanceRaised(storage,
                    sft_transfer(storage, caller, from, to, c, amount))
            /\ \A p \in EveryBatch :
                ~UnlistedBalanceRaised(storage,
                    sft_batch_transfer(storage, caller, from, to, p[1], p[2]))

\* C13: token ids are issued in sequence and never reused: a successful
\* nft_mint returns the number of successful mints before it (which is what
\* nft_total_supply reports) and raises nft_total_supply by one; no other
\* call changes nft_total_supply.
C13_IdsSequential ==
    [][ IF last'.op = "nft_mint" /\ last'.err = "ok"
        THEN /\ last'.ret = nft_total_supply(storage)
             /\ nft_total_supply(storage') = nft_total_supply(storage) + 1
        ELSE nft_total_supply(storage') = nft_total_supply(storage) ]_vars

\* every id a 64-bit token_id argument can name in the model's word
AllIds == 0 .. U64Max

\* C14: for every token id the owner record and the uri record are both
\* present or both absent: nft_owner_of(id) and nft_token_uri(id) both
\* succeed, or both fail with NftNotFound.
C14_OwnerAndUriTogether ==
    \A id \in AllIds :
        /\ Has(storage.NftOwner, id) <=> Has(storage.NftUri, id)
        /\ \/ nft_owner_of(storage, id).err = "ok"
                /\ nft_token_uri(storage, id).err = "ok"
           \/ nft_owner_of(storage, id).err = "NftNotFound"
                /\ nft_token_uri(storage, id).err = "NftNotFound"

\* C14 witness: a burn has just succeeded, leaving token 0 absent while
\* token 1 is present with owner and uri.
C14_Witness ==
    /\ last.op = "nft_burn" /\ last.err = "ok"
    /\ nft_owner_of(storage, 0).err = "NftNotFound"
    /\ nft_owner_of(storage, 1).err = "ok"
    /\ nft_token_uri(storage, 1).ret \in Uris

\* the calls that assert an owner `from` of token_id, signed by the address
\* the entry point asks for (`from`; the spender for transfer_from): the two
\* transfers, which read the pause flag first, and approve and burn, which
\* never read it
OwnerTransferCalls(s, from, token_id) ==
    {nft_transfer(s, from, from, to, token_id) : to \in Addr}
    \cup {nft_transfer_from(s, spender, spender, from, to, token_id) :
               spender \in Addr, to \in Addr}

OwnerApproveBurnCalls(s, from, token_id) ==
    {nft_approve(s, from, from, approved, token_id) : approved \in Addr}
    \cup {nft_burn(s, from, from, token_id)}

\* C15: nft_transfer, nft_transfer_from, nft_approve and nft_burn succeed only
\* when `from` is the stored owner of the token.  When the token has no owner
\* they fail with NftNotFound, when the stored owner differs from `from` with
\* NftNotOwner (with Paused instead for the two transfers while the contract
\* is paused), and in both cases nothing is written: owner, uri, approval and
\* balances stay as they were.
C15_OnlyOwnerMoves ==
    \A from \in Addr, token_id \in AllIds :
        LET expected == IF ~Has(storage.NftOwner, token_id) THEN "NftNotFound"
                        ELSE IF storage.NftOwner[token_id] # from THEN "NftNotOwner"
                        ELSE "ok"
            Rejected(r, e) == /\ r.err = e
                              /\ r.st = storage
                              /\ Committed(storage, r) = storage
        IN  /\ \A r \in OwnerTransferCalls(storage, from, token_id) :
                /\ r.err = "ok" => expected = "ok"
                /\ expected # "ok" =>
                    Rejected(r, IF is_paused(storage) THEN "Paused" ELSE expected)
            /\ \A r \in OwnerApproveBurnCalls(storage, from, token_id) :
                /\ r.err = expected
                /\ expected # "ok" => Rejected(r, expected)

\* C15 witness: an nft_transfer_from by the approved spender has just failed
\* with NftNotOwner, and an nft_burn of a token that does not exist would
\* fail with NftNotFound.
C15_Witness ==
    /\ last.op = "nft_transfer_from" /\ last.err = "NftNotOwner"
    /\ storage.NftApproved # EmptyMap
    /\ \E a \in Addr, id \in TokenIds : nft_burn(storage, a, a, id).err = "NftNotFound"

\* the token's approval slot holds exactly `spender`
ApprovedIs(s, token_id, spender) ==
    Has(s.NftApproved, token_id) /\ s.NftApproved[token_id] = spender

\* C16: nft_transfer_from(spender, from, to, token_id) succeeds only if the
\* token's approval slot holds exactly `spender` at the time of the call.
\* With an empty slot or a slot holding another address it fails and writes
\* nothing (owner, approval and balances unchanged), and the error is
\* NftNotApproved in both cases once the checks that run before the approval
\* check passed (signed by the spender, not paused, `from` the stored owner).
C16_TransferFromNeedsApproval ==
    \A caller \in Addr, spender \in Addr, from \in Addr, to \in Addr,
       token_id \in AllIds :
        LET r == nft_transfer_from(storage, caller, spender, from, to, token_id)
        IN  /\ r.err = "ok" => ApprovedIs(storage, token_id, spender)
            /\ ~ApprovedIs(storage, token_id, spender) =>
                /\ r.err # "ok"
                /\ r.st = storage
                /\ Committed(storage, r) = storage
                /\ (caller = spender /\ ~is_paused(storage)
                        /\ Has(storage.NftOwner, token_id)
                        /\ storage.NftOwner[token_id] = from)
                       => r.err = "NftNotApproved"

\* C16 witness: an nft_transfer_from has just failed with NftNotApproved on
\* one token whose slot holds an address and on the other whose slot is empty
\* the same call would fail with the same error.
C16_Witness ==
    /\ last.op = "nft_transfer_from" /\ last.err = "NftNotApproved"
    /\ \E id \in TokenIds, other \in TokenIds :
        /\ Has(storage.NftApproved, id)
        /\ Has(storage.NftOwner, other) /\ ~Has(storage.NftApproved, other)
        /\ \E spender \in Addr :
            /\ storage.NftApproved[id] # spender
            /\ nft_transfer_from(storage, spender, spender, storage.NftOwner[id],
                                 spender, id).err = "NftNotApproved"
            /\ nft_transfer_from(storage, spender, spender, storage.NftOwner[other],
                                 spender, other).err = "NftNotApproved"

\* C17: initialize succeeds at most once.  When an admin record exists it
\* fails with AlreadyInitialized and leaves the whole storage (admin, name,
\* symbol, pause flag, both counters, all token state) unchanged; otherwise
\* it succeeds, records admin, name and symbol and sets the pause flag to
\* false and both counters to 0.
C17_InitializeOnce ==
    \A admin \in Addr, name \in Names, symbol \in Symbols :
        LET r == initialize(storage, admin, name, symbol)
        IN  /\ storage.Admin # <<>> =>
                /\ r.err = "AlreadyInitialized"
                /\ r.st = storage
                /\ Committed(storage, r) = storage
            /\ storage.Admin = <<>> =>
                /\ r.err = "ok"
                /\ r.st.Admin = <<admin>>
                /\ r.st.Name = <<name>>
                /\ r.st.Symbol = <<symbol>>
                /\ r.st.Paused = FALSE
                /\ r.st.NftCounter = 0
                /\ r.st.SftClassCounter = 0

\* the admin-gated entry points, each called by `caller` in storage s with
\* every choice of its other arguments
AdminGated(s, caller) ==
    {set_admin(s, caller, a) : a \in Addr}
    \cup {nft_mint(s, caller, to, uri) : to \in Addr, uri \in Uris}
    \cup {sft_create_class(s, caller, p[1], p[2], p[3]) :
              p \in Names \X Uris \X MaxSupplyInputs}
    \cup {sft_mint(s, caller, p[1], p[2], p[3]) :
              p \in Addr \X ClassIdInputs \X Amounts}
    \cup {pause(s, caller), unpause(s, caller),
          enable_whitelist(s, caller), disable_whitelist(s, caller)}
    \cup {set_royalty(s, caller, a, bps) : a \in Addr, bps \in BasisPointInputs}
    \cup {add_to_whitelist(s, caller, a) : a \in Addr}
    \cup {remove_from_whitelist(s, caller, a) : a \in Addr}

\* in storage s, initialised: every admin-gated call by an address other than
\* the stored admin fails with Unauthorized and writes nothing, and none by
\* the stored admin fails with Unauthorized
OnlyAdminPasses(s) ==
    \A caller \in Addr :
        \A r \in AdminGated(s, caller) :
            IF caller = s.Admin[1] THEN r.err # "Unauthorized"
            ELSE /\ r.err = "Unauthorized"
                 /\ r.st = s
                 /\ Committed(s, r) = s

\* C18: once initialised, the stored admin changes only in a successful
\* set_admin, which only the admin stored at that moment can make; every
\* admin-gated call by another caller fails with Unauthorized and changes
\* nothing; after set_admin(new) the same holds with `new` as the admin, so
\* the previous admin is rejected and `new` is accepted.
C18_AdminExclusive ==
    [][ storage.Admin # <<>> =>
        /\ OnlyAdminPasses(storage)
        /\ \A caller \in Addr, new_admin \in Addr :
            LET r == set_admin(storage, caller, new_admin)
            IN  r.err = "ok" =>
                    /\ caller = storage.Admin[1]
                    /\ r.st.Admin = <<new_admin>>
                    /\ OnlyAdminPasses(r.st)
        /\ storage'.Admin # storage.Admin =>
            /\ last'.op = "set_admin" /\ last'.err = "ok"
            /\ storage'.Admin # <<>>
            /\ OnlyAdminPasses(storage') ]_vars

\* C18 witness: a set_admin has just handed the contract to another address,
\* a royalty is configured and the whitelist is enabled.
C18_Witness ==
    /\ last.op = "set_admin" /\ last.err = "ok"
    /\ emitted = <<"admin">>
    /\ storage.RoyaltyReceiver # <<>>
    /\ is_enabled(storage)
    /\ \E a \in Addr : pause(storage, a).err = "Unauthorized"

\* C19: the stored royalty basis points are always within 0..10000.
\* set_royalty(receiver, bps) by the admin with bps > 10000 fails with
\* InvalidBasisPoints and leaves the stored receiver and basis points as they
\* were; with bps <= 10000 it succeeds and stores exactly (receiver, bps) in
\* place of any earlier configuration, changing nothing else.
C19_BasisPointsInRange ==
    /\ storage.RoyaltyBasisPoints \in 0..MaxBasisPoints
    /\ \A admin \in Admins, receiver \in Addr, bps \in BasisPointInputs :
        LET r == set_royalty(storage, admin, receiver, bps)
        IN  IF bps > MaxBasisPoints
            THEN /\ r.err = "InvalidBasisPoints"
                 /\ r.st = storage
                 /\ Committed(storage, r) = storage
            ELSE /\ r.err = "ok"
                 /\ get_royalty(r.st).ret = <<receiver, bps>>
                 /\ r.st = [storage EXCEPT !.RoyaltyReceiver = <<receiver>>,
                                           !.RoyaltyBasisPoints = bps]

\* C19 witness: a set_royalty has just failed with InvalidBasisPoints while a
\* royalty of 2.5 % is configured.
C19_Witness ==
    /\ last.op = "set_royalty" /\ last.err = "InvalidBasisPoints"
    /\ get_royalty(storage).err = "ok"
    /\ get_royalty(storage).ret[2] = 250

\* C20: for every sale_price of the word and the stored basis points bps (0
\* while no royalty is configured), royalty_amount(sale_price) returns
\* floor(sale_price * bps / 10000), which is at most sale_price, and returns 0
\* before any set_royalty.
C20_RoyaltyIsFloor ==
    \A sale_price \in SalePrices :
        LET r == royalty_amount(storage, sale_price)
            bps == storage.RoyaltyBasisPoints
        IN  /\ r.err = "ok"
            /\ r.ret = (sale_price * bps) \div MaxBasisPoints
            /\ r.ret <= sale_price
            /\ storage.RoyaltyReceiver = <<>> => r.ret = 0

\* every mutating call but sft_batch_transfer, in storage s, with every
\* choice of caller and arguments
SingleCalls(s) ==
    UNION {AdminGated(s, caller) : caller \in Addr}
    \cup {initialize(s, p[1], p[2], p[3]) : p \in Addr \X Names \X Symbols}
    \cup {nft_transfer(s, p[1], p[2], p[3], p[4]) :
              p \in Addr \X Addr \X Addr \X TokenIds}
    \cup {nft_approve(s, p[1], p[2], p[3], p[4]) :
              p \in Addr \X Addr \X Addr \X TokenIds}
    \cup {nft_transfer_from(s, p[1], p[2], p[3], p[4], p[5]) :
              p \in Addr \X Addr \X Addr \X Addr \X TokenIds}
    \cup {nft_burn(s, p[1], p[2], p[3]) : p \in Addr \X Addr \X TokenIds}
    \cup {sft_transfer(s, p[1], p[2], p[3], p[4], p[5]) :
              p \in Addr \X Addr \X Addr \X ClassIdInputs \X Amounts}
    \cup {sft_burn(s, p[1], p[2], p[3], p[4]) :
              p \in Addr \X Addr \X ClassIdInputs \X Amounts}

\* what the call with result r publishes: n events when it succeeds, none
\* when it fails
Emits(r, n) ==
    IF r.err = "ok" THEN Len(Published(r)) = n
    ELSE r.ev = <<>> /\ Published(r) = <<>>

\* C21 as claimed: every successful mutating call publishes exactly one
\* event and a failed call none, sft_batch_transfer with any number of legs
\* included.
C21_OneEventPerCall ==
    /\ \A r \in SingleCalls(storage) : Emits(r, 1)
    /\ \A caller \in Addr, from \in Addr, to \in Addr, p \in EveryBatch :
        Emits(sft_batch_transfer(storage, caller, from, to, p[1], p[2]), 1)

\* C21 amended: every successful mutating call other than sft_batch_transfer
\* publishes exactly one event; a successful sft_batch_transfer publishes one
\* sft_transferred event per leg, so none for an empty batch; a failed call
\* publishes none.
C21_OneEventPerCallOrLeg ==
    /\ \A r \in SingleCalls(storage) : Emits(r, 1)
    /\ \A caller \in Addr, from \in Addr, to \in Addr, p \in EveryBatch :
        LET r == sft_batch_transfer(storage, caller, from, to, p[1], p[2])
        IN  /\ Emits(r, Len(p[1]))
            /\ \A i \in 1..Len(Published(r)) : Published(r)[i] = "sft_xfr"

\* C21 witness: a two-leg sft_batch_transfer has just succeeded and its two
\* events were published.
C21_Witness ==
    /\ last.op = "sft_batch_transfer" /\ last.err = "ok"
    /\ emitted = <<"sft_xfr", "sft_xfr">>

\* the approval slot of token_id in s, as an Option
SlotOf(s, token_id) ==
    IF Has(s.NftApproved, token_id) THEN <<s.NftApproved[token_id]>> ELSE <<>>

\* in s, not paused: approve(owner, spender, id), then nft_transfer(owner, b,
\* id), then nft_transfer_from(spender, b, c, id) all succeed, and c ends up
\* the owner
ApprovalSurvivesTransfer(s) ==
    \A token_id \in DOMAIN s.NftOwner, spender \in Addr, b \in Addr, c \in Addr :
        LET owner == s.NftOwner[token_id]
            a == nft_approve(s, owner, owner, spender, token_id)
            x == nft_transfer(a.st, owner, owner, b, token_id)
            y == nft_transfer_from(x.st, spender, spender, b, c, token_id)
        IN  /\ a.err = "ok"
            /\ x.err = "ok"
            /\ SlotOf(x.st, token_id) = <<spender>>
            /\ y.err = "ok"
            /\ y.st.NftOwner[token_id] = c
            /\ SlotOf(y.st, token_id) = <<>>

\* C22: nft_transfer does not clear a pending approval.  A filled approval
\* slot changes only in a successful nft_transfer_from (consumed),
\* nft_approve (overwritten) or nft_burn (removed); in particular every
\* successful nft_transfer leaves every slot as it was, so that after
\* approve(owner, s, id) and nft_transfer(owner, b, id) the call
\* nft_transfer_from(s, b, c, id) succeeds although b never approved s.
C22_TransferKeepsApproval ==
    [][ /\ \A token_id \in AllIds :
            (SlotOf(storage, token_id) # <<>>
                /\ SlotOf(storage', token_id) # SlotOf(storage, token_id))
            => /\ last'.err = "ok"
               /\ last'.op \in {"nft_transfer_from", "nft_approve", "nft_burn"}
        /\ \A caller \in Addr, from \in Addr, to \in Addr, token_id \in TokenIds :
            LET r == nft_transfer(storage, caller, from, to, token_id)
            IN  r.err = "ok" => r.st.NftApproved = storage.NftApproved
        /\ ~is_paused(storage) => ApprovalSurvivesTransfer(storage) ]_vars

\* C22 witness: an nft_transfer has just succeeded and the token it moved
\* still carries the approval given by its previous owner.
C22_Witness ==
    /\ last.op = "nft_transfer" /\ last.err = "ok"
    /\ emitted = <<"nft_xfr">>
    /\ storage.NftCounter = 1
    /\ SlotOf(storage, 0) # <<>>
    /\ storage.NftOwner[0] # SlotOf(storage, 0)[1]

\* the spenders whose nft_transfer_from on token_id can succeed in s
AbleSpenders(s, token_id) ==
    {spender \in Addr :
        \E from \in Addr, to \in Addr :
            nft_transfer_from(s, spender, spender, from, to, token_id).err = "ok"}

\* C23: the approval is one slot per token.  A successful nft_approve(owner,
\* B, id) leaves exactly B in the slot, whatever was there before, so that
\* afterwards (not paused) nft_transfer_from on id by any other address A
\* fails with NftNotApproved and by B succeeds; and in no state can two
\* different spenders both nft_transfer_from the same token.
C23_SingleApprovalSlot ==
    /\ \A token_id \in AllIds : Cardinality(AbleSpenders(storage, token_id)) <= 1
    /\ \A token_id \in DOMAIN storage.NftOwner, B \in Addr :
        LET owner == storage.NftOwner[token_id]
            r == nft_approve(storage, owner, owner, B, token_id)
        IN  /\ r.err = "ok"
            /\ SlotOf(r.st, token_id) = <<B>>
            /\ AbleSpenders(r.st, token_id) \subseteq {B}
            /\ ~is_paused(storage) =>
                \A to \in Addr :
                    /\ nft_transfer_from(r.st, B, B, owner, to, token_id).err = "ok"
                    /\ \A A \in Addr \ {B} :
                        nft_transfer_from(r.st, A, A, owner, to, token_id).err
                            = "NftNotApproved"

\* C23 witness: an nft_approve has just succeeded on a token while the other
\* token carries an approval of a different spender, so that an nft_approve
\* of either token for the other spender overwrites a filled slot.
C23_Witness ==
    /\ last.op = "nft_approve" /\ last.err = "ok"
    /\ ~is_paused(storage)
    /\ SlotOf(storage, 0) # <<>>
    /\ SlotOf(storage, 1) # <<>>
    /\ SlotOf(storage, 0) # SlotOf(storage, 1)

\* in s, every call that names token_id fails with NftNotFound (the two
\* transfers with Paused while the contract is paused, which they check first)
Gone(s, token_id) ==
    /\ nft_owner_of(s, token_id).err = "NftNotFound"
    /\ nft_token_uri(s, token_id).err = "NftNotFound"
    /\ \A a \in Addr :
        /\ \A r \in OwnerTransferCalls(s, a, token_id) :
            r.err = IF is_paused(s) THEN "Paused" ELSE "NftNotFound"
        /\ \A r \in OwnerApproveBurnCalls(s, a, token_id) :
            r.err = "NftNotFound"

\* C24: burn is permanent.  A successful nft_burn(from, id) removes the
\* token's owner, uri and approval and takes one from from's balance, and in
\* every later state nft_owner_of(id), nft_token_uri(id), nft_transfer,
\* nft_transfer_from, nft_approve and nft_burn on id fail with NftNotFound:
\* no later nft_mint brings the id back.
C24_BurnIsPermanent ==
    /\ \A token_id \in DOMAIN storage.NftOwner :
        LET from == storage.NftOwner[token_id]
            r == nft_burn(storage, from, from, token_id)
        IN  /\ r.err = "ok"
            /\ Gone(r.st, token_id)
            /\ SlotOf(r.st, token_id) = <<>>
            /\ nft_balance_of(r.st, from) = nft_balance_of(storage, from) - 1
    /\ \A token_id \in burned : Gone(storage, token_id)

\* the cap sft_mint applies to a class: max_supply, the whole word when it is 0
CapOf(s, c) == IF MaxSupplyOf(s, c) > 0 THEN MaxSupplyOf(s, c) ELSE U64Max

Members(s) == {a \in Addr : is_whitelisted(s, a)}

\* C26: whitelist membership and the whitelist flag are independent.
\* enable_whitelist and disable_whitelist (by the admin) set the flag and
\* leave every address's membership as it was; add_to_whitelist and
\* remove_from_whitelist leave the flag as it was and change the membership
\* of the named address only; so an address added before a disable / enable
\* cycle is still a member after it.  No other call changes either.
C26_FlagAndMembersIndependent ==
    [][ /\ \A admin \in Admins :
            LET e == enable_whitelist(storage, admin)
                d == disable_whitelist(storage, admin)
            IN  /\ e.err = "ok" /\ d.err = "ok"
                /\ is_enabled(e.st) /\ ~is_enabled(d.st)
                /\ Members(e.st) = Members(storage)
                /\ Members(d.st) = Members(storage)
                /\ \A a \in Addr :
                    LET add == add_to_whitelist(storage, admin, a)
                        rem == remove_from_whitelist(storage, admin, a)
                        off == disable_whitelist(add.st, admin)
                        on == enable_whitelist(off.st, admin)
                    IN  /\ add.err = "ok" /\ rem.err = "ok"
                        /\ is_enabled(add.st) = is_enabled(storage)
                        /\ is_enabled(rem.st) = is_enabled(storage)
                        /\ Members(add.st) = Members(storage) \cup {a}
                        /\ Members(rem.st) = Members(storage) \ {a}
                        /\ off.err = "ok" /\ on.err = "ok"
                        /\ is_whitelisted(off.st, a)
                        /\ is_whitelisted(on.st, a)
        /\ Members(storage') # Members(storage) =>
            last'.op \in {"add_to_whitelist", "remove_from_whitelist"}
        /\ is_enabled(storage') # is_enabled(storage) =>
            last'.op \in {"enable_whitelist", "disable_whitelist"} ]_vars

\* C26 witness: an enable_whitelist has just succeeded with a member on the
\* list, which was therefore added while the flag was off or before a
\* disable / enable cycle.
C26_Witness ==
    /\ last.op = "enable_whitelist" /\ last.err = "ok"
    /\ emitted = <<"wl_toggle">>
    /\ is_enabled(storage)
    /\ Cardinality(Members(storage)) = 1

\* in s, not paused: every SFT call on class_id fails with SftClassNotFound,
\* and the balance of every address in it reads 0
NoSuchClass(s, class_id) ==
    /\ sft_class_supply(s, class_id) = <<>>
    /\ sft_class_uri(s, class_id).err = "SftClassNotFound"
    /\ \A a \in Addr : sft_balance_of(s, a, class_id) = 0
    /\ \A admin \in Admins, to \in Addr, amount \in Amounts :
        sft_mint(s, admin, to, class_id, amount).err = "SftClassNotFound"
    /\ \A from \in Addr, to \in Addr, amount \in Amounts :
        /\ sft_transfer(s, from, from, to, class_id, amount).err = "SftClassNotFound"
        /\ sft_burn(s, from, from, class_id, amount).err = "SftClassNotFound"

\* C27: classes are created in sequence and never disappear.  A successful
\* sft_create_class returns the number of successful creations before it, an
\* id that named no class so far, and the new class has supply 0; no other
\* call changes the class counter.  A class that exists keeps existing
\* (sft_class_supply and sft_class_uri succeed on it) with the max_supply it
\* was created with.  On an id that names no class, sft_mint, sft_transfer,
\* sft_burn, sft_class_supply and sft_class_uri fail with SftClassNotFound
\* and sft_balance_of returns 0.
C27_ClassesSequential ==
    [][ /\ IF last'.op = "sft_create_class" /\ last'.err = "ok"
           THEN /\ last'.ret = storage.SftClassCounter
                /\ storage'.SftClassCounter = storage.SftClassCounter + 1
                /\ last'.ret \notin Classes(storage)
                /\ sft_class_supply(storage', last'.ret) = <<0>>
           ELSE storage'.SftClassCounter = storage.SftClassCounter
        /\ \A c \in Classes(storage) :
            /\ sft_class_supply(storage', c) # <<>>
            /\ sft_class_uri(storage', c).err = "ok"
            /\ MaxSupplyOf(storage', c) = MaxSupplyOf(storage, c)
        /\ ~is_paused(storage') =>
            \A c \in ClassIdInputs \ Classes(storage') : NoSuchClass(storage', c) ]_vars

\* C28: the saturating subtractions never clamp.  The owner of every token
\* has an NFT balance of at least 1, which is what nft_transfer,
\* nft_transfer_from and nft_burn decrement; and whenever an sft_burn passes
\* its balance check (amount <= balance of `from`), the class supply it
\* decrements is at least the amount.
C28_SaturationNeverClamps ==
    /\ \A token_id \in DOMAIN storage.NftOwner :
        nft_balance_of(storage, storage.NftOwner[token_id]) >= 1
    /\ \A c \in Classes(storage), from \in Addr, amount \in Amounts :
        amount <= sft_balance_of(storage, from, c) => SupplyOf(storage, c) >= amount

NftLedgerKept(s, r) ==
    /\ r.st.NftOwner = s.NftOwner
    /\ r.st.NftBalance = s.NftBalance

SftLedgerKept(s, r) ==
    /\ r.st.SftBalance = s.SftBalance
    /\ r.st.SftClassSupply = s.SftClassSupply

\* C29: a self-transfer is a no-op on the ledger.  A successful nft_transfer
\* or nft_transfer_from with from = to leaves the owner map and every NFT
\* balance as they were; a successful sft_transfer or sft_batch_transfer with
\* from = to leaves every SFT balance and every class supply as they were.
C29_SelfTransferIsNoOp ==
    \A a \in Addr :
        /\ \A token_id \in AllIds :
            LET r == nft_transfer(storage, a, a, a, token_id)
            IN  r.err = "ok" => NftLedgerKept(storage, r)
        /\ \A spender \in Addr, token_id \in AllIds :
            LET r == nft_transfer_from(storage, spender, spender, a, a, token_id)
            IN  r.err = "ok" => NftLedgerKept(storage, r)
        /\ \A c \in ClassIdInputs, amount \in Amounts :
            LET r == sft_transfer(storage, a, a, a, c, amount)
            IN  r.err = "ok" => SftLedgerKept(storage, r)
        /\ \A p \in EqualLength :
            LET r == sft_batch_transfer(storage, a, a, a, p[1], p[2])
            IN  r.err = "ok" => SftLedgerKept(storage, r)

\* C30: the cap check and the counters are safe under the u64 word.  A
\* successful sft_mint on a capped class never takes the true sum
\* current_supply + amount above max_supply; a successful sft_mint on any
\* class leaves neither the class supply nor the recipient's balance smaller
\* than before; and a successful nft_mint or sft_create_class leaves its
\* counter one above the id it issued, so that no id is issued twice.
C30_ArithmeticIsSafe ==
    \A admin \in Admins :
        /\ \A to \in Addr, c \in Classes(storage), amount \in Amounts :
            LET r == sft_mint(storage, admin, to, c, amount)
            IN  r.err = "ok" =>
                    /\ MaxSupplyOf(storage, c) > 0 =>
                            SupplyOf(storage, c) + amount <= MaxSupplyOf(storage, c)
                    /\ SupplyOf(r.st, c) >= SupplyOf(storage, c)
                    /\ sft_balance_of(r.st, to, c) >= sft_balance_of(storage, to, c)
        /\ \A to \in Addr, uri \in Uris :
            LET r == nft_mint(storage, admin, to, uri)
            IN  r.err = "ok" => r.st.NftCounter = r.ret + 1
        /\ \A name \in Names, uri \in Uris, max_supply \in MaxSupplyInputs :
            LET r == sft_create_class(storage, admin, name, uri, max_supply)
            IN  r.err = "ok" => r.st.SftClassCounter = r.ret + 1

====
